---- MODULE Spec2Model ----
(***************************************************************************)
(* Model of pystall's core build pipeline (src/pystall/core.py):           *)
(* the Resource classes, their download() and install() methods and the    *)
(* build() orchestrator, run by a single-threaded script that calls        *)
(* build(), download() and install() one after the other.                  *)
(*                                                                         *)
(* Python strings are sequences of characters, so that slicing and         *)
(* startswith() are computed as the code computes them.                    *)
(***************************************************************************)
EXTENDS Integers, Sequences, FiniteSets, TLC

\* ------------------------------------------------------------------ bounds
MaxCalls == 2      \* top-level calls the script makes
MaxFaults == 1     \* environment faults (network error, non-zero exit, bad archive)
MaxDepth == 8      \* frames the interpreter allows on the call stack
MaxEntries == 2    \* entries of a resource file

\* ----------------------------------------------------------------- strings
HTTPS == <<"h", "t", "t", "p", "s", ":", "/", "/">>
HTTP == <<"h", "t", "t", "p", ":", "/", "/">>
DOWNLOAD_FOLDER == <<"~", "/", "D">>
sep == <<"/">>

\* str.startswith(prefix)
startswith(s, prefix) ==
  /\ Len(s) >= Len(prefix)
  /\ SubSeq(s, 1, Len(prefix)) = prefix

\* the Python slice s[:-n:] for n > 0
SliceEnd(s, n) == IF Len(s) > n THEN SubSeq(s, 1, Len(s) - n) ELSE <<>>

\* str.lower(), on the characters the responses are made of
Lower(s) ==
  [i \in 1..Len(s) |-> CASE s[i] = "Y" -> "y"
                         [] s[i] = "N" -> "n"
                         [] s[i] = "E" -> "e"
                         [] s[i] = "S" -> "s"
                         [] OTHER -> s[i]]

\* str.strip(): leading and trailing whitespace removed
RECURSIVE Strip(_)
Strip(s) ==
  IF s = <<>> THEN s
  ELSE IF Head(s) = " " THEN Strip(Tail(s))
  ELSE IF s[Len(s)] = " " THEN Strip(SubSeq(s, 1, Len(s) - 1))
  ELSE s

\* ------------------------------------------------------- the resource kinds
FileKinds == {"EXE", "MSI", "DEB", "ZIP", "TARBALL", "STATIC"}
RepoKinds == {"APT", "PPA"}

\* the extension each subclass passes to Resource.__init__
KindExtension(kind) ==
  CASE kind = "EXE" -> <<".", "e", "x", "e">>
    [] kind = "MSI" -> <<".", "m", "s", "i">>
    [] kind = "ZIP" -> <<".", "z", "i", "p">>
    [] kind = "DEB" -> <<".", "d", "e", "b">>
    [] kind = "TARBALL" -> <<".", "t", "a", "r", ".", "g", "z">>
    [] kind = "STATIC" -> <<".", "p", "n", "g">>
    [] OTHER -> <<>>

\* ------------------------------------------- the resources the script makes
\* One instance per row: the constructor arguments of each.  single = TRUE
\* is a dependencies value that is one resource rather than a tuple, pkgstr =
\* TRUE a packages value that is one str, arguments = <<>> the default False.
URL(name) == HTTPS \o <<name>>
LOCAL_MSI == <<"C", "/", "g", "o", ".", "m", "s", "i">>

Instances ==
  [ exe    |-> [kind |-> "EXE",     label |-> <<"a">>, location |-> URL("a"),
                deps |-> <<>>, single |-> FALSE, packages |-> <<>>, pkgstr |-> FALSE,
                arguments |-> <<"/S">>],
    msi    |-> [kind |-> "MSI",     label |-> <<"g">>, location |-> LOCAL_MSI,
                deps |-> <<"exe", "zip">>, single |-> FALSE, packages |-> <<>>, pkgstr |-> FALSE,
                arguments |-> <<>>],
    deb    |-> [kind |-> "DEB",     label |-> <<"d">>, location |-> URL("d"),
                deps |-> <<"apt">>, single |-> FALSE, packages |-> <<>>, pkgstr |-> FALSE,
                arguments |-> <<>>],
    zip    |-> [kind |-> "ZIP",     label |-> <<"z">>, location |-> URL("z"),
                deps |-> <<"static">>, single |-> TRUE, packages |-> <<>>, pkgstr |-> FALSE,
                arguments |-> <<>>],
    tar    |-> [kind |-> "TARBALL", label |-> <<"t">>, location |-> URL("t"),
                deps |-> <<>>, single |-> FALSE, packages |-> <<>>, pkgstr |-> FALSE,
                arguments |-> <<>>],
    static |-> [kind |-> "STATIC",  label |-> <<"w">>, location |-> URL("w"),
                deps |-> <<>>, single |-> FALSE, packages |-> <<>>, pkgstr |-> FALSE,
                arguments |-> <<>>],
    apt    |-> [kind |-> "APT",     label |-> <<"n">>, location |-> <<>>,
                deps |-> <<>>, single |-> FALSE, packages |-> << <<"p1">>, <<"p2">> >>, pkgstr |-> FALSE,
                arguments |-> <<>>],
    ppa    |-> [kind |-> "PPA",     label |-> <<"y">>, location |-> <<>>,
                deps |-> <<"apt">>, single |-> TRUE, packages |-> << <<"p3">> >>, pkgstr |-> TRUE,
                arguments |-> <<>>] ]

RES == DOMAIN Instances
Kind(r) == Instances[r].kind
FileRes == {r \in RES : Kind(r) \in FileKinds}
RepoRes == {r \in RES : Kind(r) \in RepoKinds}
RemovableRes == {r \in RES : Kind(r) \in {"EXE", "MSI", "DEB", "ZIP", "TARBALL"}}

\* ------------------------------------------------------------------- state
VARIABLES
  downloaded,   \* [RES -> BOOLEAN]: each instance's downloaded attribute
  location,     \* [RES -> string]: each instance's location attribute
  remove,       \* [RemovableRes -> BOOLEAN]: each instance's remove attribute
  dependencies, \* [RES -> sequence of instances]: each instance's dependencies attribute
  files,        \* paths of the regular files on disk
  partial,      \* the files among them that a broken transfer left truncated
  dirs,         \* paths of the directories created by extraction
  applied,      \* commands that ran to exit status 0
  stack,        \* the Python call stack, innermost frame last
  proc,         \* the child process of the subprocess.Popen being polled
  result,       \* how the last top-level call ended
  calls,        \* top-level calls made so far
  call,         \* the top-level call being run, or the last one run
  faults,       \* environment faults so far
  log,          \* events of the current top-level call, in order
  transfers,    \* every network transfer that wrote a file, <<resource, path>>, in order
  removed,      \* every path deleted by os.remove, in order
  fetched,      \* the <<resource, path>> of every download() that returned normally
  agreement,    \* the class attribute Resource.agreement
  constructed,  \* the instances whose constructor has returned
  overridden,   \* those of them constructed with overwrite_agreement = True
  ctor,         \* the constructor that is waiting at input(), if any
  response,     \* what the last input() returned
  exited,       \* sys.exit() has ended the process
  resource_file,  \* the entries of the resource file given to build_from_file
  loaded,       \* what _validate_resources returned for it
  actor,        \* the download() each of two concurrent threads is running
  overlapped    \* the paths two threads were downloading to at the same time

vars == <<downloaded, location, remove, dependencies, files, partial, dirs, applied, stack, proc,
          result, calls, call, faults, log, transfers, removed, fetched,
          agreement, constructed, overridden, ctor, response, exited,
          resource_file, loaded, actor, overlapped>>

resvars == <<downloaded, location, remove, dependencies>>
fsvars == <<files, partial, dirs>>
callvars == <<calls, call>>
histvars == <<transfers, removed, fetched>>
gatevars == <<agreement, constructed, overridden, ctor, response, exited>>
filevars == <<resource_file, loaded>>
actorvars == <<actor, overlapped>>

\* needs: the file the command line runs or reads, <<>> when it names none
NoProc == [status |-> "none", cmd |-> <<>>, needs |-> <<>>, code |-> 0]
Running(cmd, needs) == [status |-> "running", cmd |-> cmd, needs |-> needs, code |-> 0]
ExitCodes == {0, 1, 127}

\* a slip: the loop is not left when the child has exited
PollEndedNever(p) == FALSE

\* a slip: the child process is not waited for
PollEndedAtOnce(p) == TRUE

\* while installer.poll() == None: the loop is left once the child has exited
PollEnded(p) == p.status = "exited"

Event(e, r, x) == [e |-> e, r |-> r, x |-> x]
Frame(op, r, args, fp) == [op |-> op, r |-> r, args |-> args, fp |-> fp, i |-> 1, pc |-> "start"]

Top == stack[Len(stack)]
Pop(s) == SubSeq(s, 1, Len(s) - 1)
SetTop(s, f) == [s EXCEPT ![Len(s)] = f]

\* a slip: the outcome of the call is not reported
ReturnLost ==
  /\ stack' = Pop(stack)
  /\ result' = result

\* a frame returns normally to its caller
Return ==
  /\ stack' = Pop(stack)
  /\ result' = IF Len(stack) = 1 THEN "returned" ELSE result

\* a slip: the exception is swallowed where it is raised and the frame returns
RaiseSwallowed(exc) ==
  /\ stack' = Pop(stack)
  /\ result' = IF Len(stack) = 1 THEN "returned" ELSE result

\* an exception: nothing in core.py or cli.py catches, so it unwinds every frame
Raise(exc) ==
  /\ stack' = <<>>
  /\ result' = exc

\* a method or function is called: its frame is pushed, unless the call
\* stack is full, which raises RecursionError in the caller
Invoke(caller, frame, r, event) ==
  IF Len(stack) >= MaxDepth
    THEN /\ Raise("RecursionError")
         /\ log' = Append(log, Event("raise", r, <<>>))
    ELSE /\ stack' = Append(caller, frame)
         /\ log' = log \o event
         /\ UNCHANGED result

\* --------------------------------------------------------- pure operators
\* a slip: the extension left out of the default file name
ResolvePathNoExtension(r, file_path) ==
  IF file_path = <<>>
    THEN DOWNLOAD_FOLDER \o sep \o Instances[r].label
    ELSE file_path

\* Resource.download: the target path
ResolvePath(r, file_path) ==
  IF file_path = <<>>
    THEN DOWNLOAD_FOLDER \o sep \o Instances[r].label \o KindExtension(Kind(r))
    ELSE file_path

\* a slip: the existence test left out, no path is ever found
PathExistsNever(p, fs, ds) == FALSE

\* a slip: os.path.isdir in place of os.path.exists
PathExistsDirsOnly(p, fs, ds) == p \in ds

\* os.path.exists
PathExists(p, fs, ds) == p \in fs \cup ds

\* a slip: every location that is not empty is fetched
IsURLNotEmpty(loc) == loc # <<>>

\* a slip: the scheme test left out, every location is fetched
IsURLAlways(loc) == TRUE

\* the test that starts a transfer
IsURL(loc) == startswith(loc, HTTPS) \/ startswith(loc, HTTP)

\* the location attribute after a transfer to file_path
LocationAfterTransfer(loc, file_path) == file_path

\* ZIPResource.extract / TARBALLResource.extract: the directory extracted to
ExtractPath(kind, loc) ==
  IF kind = "ZIP" THEN SliceEnd(loc, 3) ELSE SliceEnd(loc, 7)

\* a slip: the dependencies walked from the last to the first
DependencyListReversed(r) ==
  LET d == dependencies[r]
  IN IF d = <<>> THEN <<>>
     ELSE IF Instances[r].single THEN <<d[1]>>
     ELSE [i \in 1..Len(d) |-> d[Len(d) + 1 - i]]

\* a slip: only the first dependency of a tuple is built
DependencyListFirstOnly(r) ==
  IF dependencies[r] = <<>> THEN <<>> ELSE <<dependencies[r][1]>>

\* a slip: the dependencies are not built at all
DependencyListNone(r) == <<>>

\* install(): the dependencies built, in order
DependencyList(r) ==
  IF dependencies[r] = <<>> THEN <<>>
  ELSE IF Instances[r].single THEN <<dependencies[r][1]>>
  ELSE dependencies[r]

\* a slip: the list of packages walked from its end
PackageListReversed(r) ==
  LET p == Instances[r].packages
  IN IF Instances[r].pkgstr THEN <<p[1]>> ELSE [i \in 1..Len(p) |-> p[Len(p) + 1 - i]]

\* APTResource.install / CUSTOMPPAResource.install: the packages installed, in order
PackageList(r) ==
  IF Instances[r].pkgstr THEN <<Instances[r].packages[1]>> ELSE Instances[r].packages

\* a slip: the flag flipped where it is to be set
MarkDownloadedFlipped(flags, r) == [flags EXCEPT ![r] = ~@]

\* self.downloaded = True
MarkDownloaded(flags, r) == [flags EXCEPT ![r] = TRUE]

\* build(): whether download() is called before install()
NeedsDownload(flag) == ~flag

\* whether install() deletes the artifact once the install action is over
RemovesAfter(removeFlag, code) == removeFlag

\* the command lines handed to subprocess.Popen
InstallCommand(r, loc) ==
  IF Kind(r) = "DEB" THEN <<"sudo apt install", loc>> ELSE <<"run", loc>>
DownloadCommand(r) ==
  IF Kind(r) = "PPA" THEN <<"sudo add-apt-repository && sudo apt-get update", Instances[r].label>>
  ELSE <<"sudo apt-get update", <<>> >>
PackageCommand(package) == <<"sudo apt install", package>>

DefaultPaths == {ResolvePath(r, <<>>) : r \in FileRes}
\* the calls the script makes: download() with the default path on any file
\* instance, and with the path of exe's installer given as file_path
DownloadCalls ==
  {<<r, <<>> >> : r \in RES} \cup {<<"static", ResolvePath("exe", <<>>)>>}
\* build() with no resource, with one, and with two
BuildArgs ==
  {<<>>} \cup {<<r>> : r \in RES}
         \cup {<<"exe", "tar">>, <<"zip", "static">>, <<"apt", "deb">>, <<"tar", "tar">>}

\* -------------------------------------------------------------------- Init
\* The constructors have run, the first of them prompted and was answered
\* 'y'.  Every instance starts with downloaded = False except msi, a local
\* installer file the script declares downloaded; the script passes
\* remove = True to every constructor that takes it, or False.
NoCtor == [r |-> "", overwrite_agreement |-> FALSE, pc |-> "none"]

\* build_from_file has not been called
NotLoaded == [state |-> "not called", instances |-> <<>>]

\* two threads of the script, neither in a download()
Actors == {"t1", "t2"}
Idle == [r |-> "", file_path |-> <<>>, pc |-> "idle"]

RemoveChoices == {[r \in RemovableRes |-> b] : b \in BOOLEAN}

Init ==
  /\ downloaded = [r \in RES |-> r = "msi"]
  /\ location = [r \in RES |-> Instances[r].location]
  /\ remove \in RemoveChoices
  /\ dependencies = [r \in RES |-> Instances[r].deps]
  /\ files = {LOCAL_MSI}
  /\ partial = {}
  /\ dirs = {}
  /\ applied = {}
  /\ stack = <<>>
  /\ proc = NoProc
  /\ result = "none"
  /\ calls = 0
  /\ call = [op |-> "none", r |-> "", args |-> <<>>]
  /\ faults = 0
  /\ log = <<>>
  /\ transfers = <<>>
  /\ removed = <<>>
  /\ fetched = {}
  /\ agreement = TRUE
  /\ constructed = RES
  /\ overridden = {}
  /\ ctor = NoCtor
  /\ response = <<"y">>
  /\ exited = FALSE
  /\ resource_file = <<>>
  /\ loaded = NotLoaded
  /\ actor = [a \in Actors |-> Idle]
  /\ overlapped = {}

\* ------------------------------------------------------- the constructors
\* The process from its start: the script constructs these instances in this
\* order (a dependency before the instance that declares it), each with or
\* without overwrite_agreement, and calls build() in between.
ScriptOrder == <<"exe", "static", "zip", "apt", "ppa">>
ProcessBuildArgs == {<<ScriptOrder[i]>> : i \in 1..Len(ScriptOrder)} \cup {<<"static", "exe">>}

\* what the user types at the prompt
Responses == {<<"y">>, <<" ", "Y">>, <<"n">>, <<"N", " ">>, <<"y", "e", "s">>, <<>>}

\* a slip: the response compared as typed
NormaliseNot(resp) == resp

\* a slip: .strip() left out
NormaliseLowerOnly(resp) == Lower(resp)

\* a slip: whatever is typed is taken as 'y'
NormaliseAnything(resp) == <<"y">>

\* input(agreement_text).lower().strip()
Normalise(resp) == Strip(Lower(resp))

\* a slip: overwrite_agreement not looked at
NeedsPromptIgnoringOverwrite(overwrite_agreement, gate) == ~gate

\* a slip: the prompt asked of every instance, not once per process
NeedsPromptAlways(overwrite_agreement, gate) == ~overwrite_agreement

\* if not overwrite_agreement: while not Resource.agreement: the first test
NeedsPrompt(overwrite_agreement, gate) == ~overwrite_agreement /\ ~gate

\* the end of __init__: the attributes are assigned and the instance exists
Constructed(r, overwrite_agreement) ==
  /\ constructed' = constructed \cup {r}
  /\ overridden' = IF overwrite_agreement THEN overridden \cup {r} ELSE overridden
  /\ downloaded' = [downloaded EXCEPT ![r] = (r = "msi")]
  /\ location' = [location EXCEPT ![r] = Instances[r].location]

\* Resource.__init__, CUSTOMPPAResource.__init__, APTResource.__init__ up to
\* the first input(), or to the end when there is no prompt
Construct(r, overwrite_agreement) ==
  /\ stack = <<>>
  /\ ~exited /\ ctor.pc = "none"
  /\ Cardinality(constructed) < Len(ScriptOrder)
  /\ r = ScriptOrder[Cardinality(constructed) + 1]
  /\ IF NeedsPrompt(overwrite_agreement, agreement)
       THEN /\ ctor' = [r |-> r, overwrite_agreement |-> overwrite_agreement, pc |-> "prompt"]
            /\ UNCHANGED <<constructed, overridden, downloaded, location>>
       ELSE /\ Constructed(r, overwrite_agreement)
            /\ UNCHANGED ctor
  /\ UNCHANGED <<remove, dependencies, fsvars, applied, stack, proc, result, callvars, faults, log,
                 histvars, agreement, response, exited, filevars, actorvars>>

\* input() returns: the body of the while loop, up to the next input(), to
\* sys.exit() or to the end of __init__
Respond(resp) ==
  /\ ctor.pc = "prompt"
  /\ response' = resp
  /\ IF Normalise(resp) = <<"y">>
       THEN /\ agreement' = TRUE
            /\ Constructed(ctor.r, ctor.overwrite_agreement)
            /\ ctor' = NoCtor
            /\ UNCHANGED exited
       ELSE IF Normalise(resp) = <<"n">>
       THEN /\ exited' = TRUE
            /\ ctor' = NoCtor
            /\ UNCHANGED <<agreement, constructed, overridden, downloaded, location>>
       ELSE \* the terminal is cleared and the prompt shown again
            UNCHANGED <<agreement, constructed, overridden, downloaded, location, ctor, exited>>
  /\ UNCHANGED <<remove, dependencies, fsvars, applied, stack, proc, result, callvars, faults,
                 log, histvars, filevars, actorvars>>

\* ------------------------------------------------- the script's top level
CallBuild(args) ==
  /\ stack = <<>>
  /\ ~exited /\ ctor.pc = "none"
  /\ \A i \in 1..Len(args) : args[i] \in constructed
  /\ calls < MaxCalls
  /\ calls' = calls + 1
  /\ call' = [op |-> "build", r |-> "", args |-> args]
  /\ stack' = <<Frame("build", "", args, <<>>)>>
  /\ result' = "running"
  /\ log' = <<>>
  /\ UNCHANGED <<resvars, fsvars, applied, proc, faults, histvars, gatevars, filevars, actorvars>>

CallDownload(r, file_path) ==
  /\ stack = <<>>
  /\ ~exited /\ ctor.pc = "none"
  /\ r \in constructed
  /\ calls < MaxCalls
  /\ calls' = calls + 1
  /\ call' = [op |-> "download", r |-> r, args |-> <<>>]
  /\ stack' = <<Frame("download", r, <<>>, file_path)>>
  /\ result' = "running"
  /\ log' = <<Event("download", r, <<>>)>>
  /\ UNCHANGED <<resvars, fsvars, applied, proc, faults, histvars, gatevars, filevars, actorvars>>

CallInstall(r) ==
  /\ stack = <<>>
  /\ ~exited /\ ctor.pc = "none"
  /\ r \in constructed
  /\ calls < MaxCalls
  /\ calls' = calls + 1
  /\ call' = [op |-> "install", r |-> r, args |-> <<>>]
  /\ stack' = <<Frame("install", r, <<>>, <<>>)>>
  /\ result' = "running"
  /\ log' = <<Event("install", r, <<>>)>>
  /\ UNCHANGED <<resvars, fsvars, applied, proc, faults, histvars, gatevars, filevars, actorvars>>

\* ------------------------------------------------------------------ build
\* for resource in resources: if not resource.downloaded: resource.download()
BuildDownload ==
  /\ stack # <<>>
  /\ Top.op = "build" /\ Top.pc = "start" /\ Top.i <= Len(Top.args)
  /\ LET r == Top.args[Top.i]
         next == SetTop(stack, [Top EXCEPT !.pc = "install"])
     IN IF NeedsDownload(downloaded[r])
          THEN Invoke(next, Frame("download", r, <<>>, <<>>), r,
                      <<Event("download", r, <<>>)>>)
          ELSE /\ stack' = next
               /\ log' = Append(log, Event("skip", r, <<>>))
               /\ UNCHANGED result
  /\ UNCHANGED <<resvars, fsvars, applied, proc, callvars, faults, histvars, gatevars, filevars, actorvars>>

\* resource.install()
BuildInstall ==
  /\ stack # <<>>
  /\ Top.op = "build" /\ Top.pc = "install"
  /\ LET r == Top.args[Top.i]
     IN Invoke(SetTop(stack, [Top EXCEPT !.pc = "start", !.i = @ + 1]),
               Frame("install", r, <<>>, <<>>), r, <<Event("install", r, <<>>)>>)
  /\ UNCHANGED <<resvars, fsvars, applied, proc, callvars, faults, histvars, gatevars, filevars, actorvars>>

\* the loop is over
BuildReturn ==
  /\ stack # <<>>
  /\ Top.op = "build" /\ Top.pc = "start" /\ Top.i > Len(Top.args)
  /\ Return
  /\ UNCHANGED <<resvars, fsvars, applied, proc, callvars, faults, log, histvars, gatevars, filevars, actorvars>>

\* ------------------------------------------------------ Resource.download
\* The whole method, for the EXE, MSI, DEB, ZIP, TARBALL and STATIC instances.
DownloadFile ==
  /\ stack # <<>>
  /\ Top.op = "download" /\ Top.r \in FileRes
  /\ LET r == Top.r
         file_path == ResolvePath(r, Top.fp)
     IN \/ \* the file is already there
           /\ PathExists(file_path, files, dirs)
           /\ downloaded' = MarkDownloaded(downloaded, r)
           /\ location' = [location EXCEPT ![r] = file_path]
           /\ Return
           /\ log' = Append(log, Event("downloaded", r, file_path))
           /\ fetched' = fetched \cup {<<r, file_path>>}
           /\ UNCHANGED <<files, partial, transfers, faults>>
        \/ \* a URL: the transfer runs to its end
           /\ ~PathExists(file_path, files, dirs)
           /\ IsURL(location[r])
           /\ files' = files \cup {file_path}
           /\ transfers' = Append(transfers, <<r, file_path>>)
           /\ downloaded' = MarkDownloaded(downloaded, r)
           /\ location' = [location EXCEPT ![r] = LocationAfterTransfer(location[r], file_path)]
           /\ Return
           /\ log' = log \o <<Event("transfer", r, file_path), Event("downloaded", r, file_path)>>
           /\ fetched' = fetched \cup {<<r, file_path>>}
           /\ UNCHANGED <<partial, faults>>
        \/ \* a URL: requests.get raises before the file is opened
           /\ ~PathExists(file_path, files, dirs)
           /\ IsURL(location[r])
           /\ faults < MaxFaults
           /\ faults' = faults + 1
           /\ Raise("ConnectionError")
           /\ log' = Append(log, Event("raise", r, file_path))
           /\ UNCHANGED <<files, partial, transfers, downloaded, location, fetched>>
        \/ \* a URL: the stream breaks after the file was opened for writing
           /\ ~PathExists(file_path, files, dirs)
           /\ IsURL(location[r])
           /\ faults < MaxFaults
           /\ faults' = faults + 1
           /\ files' = files \cup {file_path}
           /\ partial' = partial \cup {file_path}
           /\ transfers' = Append(transfers, <<r, file_path>>)
           /\ Raise("ChunkedEncodingError")
           /\ log' = log \o <<Event("transfer", r, file_path), Event("raise", r, file_path)>>
           /\ UNCHANGED <<downloaded, location, fetched>>
        \/ \* not a URL: taken as already downloaded
           /\ ~PathExists(file_path, files, dirs)
           /\ ~IsURL(location[r])
           /\ downloaded' = MarkDownloaded(downloaded, r)
           /\ Return
           /\ log' = Append(log, Event("downloaded", r, file_path))
           /\ fetched' = fetched \cup {<<r, file_path>>}
           /\ UNCHANGED <<location, files, partial, transfers, faults>>
  /\ UNCHANGED <<remove, dependencies, dirs, applied, proc, callvars, removed, gatevars, filevars, actorvars>>

\* ----------------------- APTResource.download / CUSTOMPPAResource.download
DownloadRepoLaunch ==
  /\ stack # <<>>
  /\ Top.op = "download" /\ Top.r \in RepoRes /\ Top.pc = "start"
  /\ proc' = Running(DownloadCommand(Top.r), <<>>)
  /\ stack' = SetTop(stack, [Top EXCEPT !.pc = "poll"])
  /\ log' = Append(log, Event("popen", Top.r, DownloadCommand(Top.r)))
  /\ UNCHANGED <<resvars, fsvars, applied, result, callvars, faults, histvars, gatevars, filevars, actorvars>>

\* while installer.poll() == None: ends, and the method with it
DownloadRepoPoll ==
  /\ stack # <<>>
  /\ Top.op = "download" /\ Top.r \in RepoRes /\ Top.pc = "poll"
  /\ PollEnded(proc)
  /\ proc' = NoProc
  /\ Return
  /\ log' = Append(log, Event("downloaded", Top.r, <<>>))
  /\ UNCHANGED <<resvars, fsvars, applied, callvars, faults, histvars, gatevars, filevars, actorvars>>

\* ------------------------------------------------------ the child process
\* The shell started by Popen(..., shell=True) ends: with 127 when the file
\* its command line names is not there, with 1 when that file is truncated,
\* else with 0 or, as a fault, with 1.
ProcExit(code) ==
  /\ proc.status = "running"
  /\ IF proc.needs # <<>> /\ proc.needs \notin files
       THEN code = 127 /\ UNCHANGED faults
       ELSE IF proc.needs \in partial
       THEN code = 1 /\ UNCHANGED faults
       ELSE \/ code = 0 /\ UNCHANGED faults
            \/ code = 1 /\ faults < MaxFaults /\ faults' = faults + 1
  /\ proc' = [proc EXCEPT !.status = "exited", !.code = code]
  /\ applied' = IF code = 0 THEN applied \cup {proc.cmd} ELSE applied
  /\ log' = Append(log, Event("exit", Top.r, <<code>>))
  /\ UNCHANGED <<resvars, fsvars, stack, result, callvars, histvars, gatevars, filevars, actorvars>>

\* ---------------------------------------------------------------- install
\* install(): build(dependency) for the next dependency
InstallDependency ==
  /\ stack # <<>>
  /\ Top.op = "install" /\ Top.pc = "start"
  /\ Top.i <= Len(DependencyList(Top.r))
  /\ Invoke(SetTop(stack, [Top EXCEPT !.i = @ + 1]),
            Frame("build", "", <<DependencyList(Top.r)[Top.i]>>, <<>>), Top.r, <<>>)
  /\ UNCHANGED <<resvars, fsvars, applied, proc, callvars, faults, histvars, gatevars, filevars, actorvars>>

\* the dependencies are done: the instance's own part of install() is next
AtOwnAction ==
  /\ stack # <<>>
  /\ Top.op = "install" /\ Top.pc = "start"
  /\ Top.i > Len(DependencyList(Top.r))

\* the end of EXE/MSI/DEB/ZIP/TARBALL install(): if self.remove: os.remove(self.location)
RemoveAndReturn(r, code) ==
  IF RemovesAfter(remove[r], code)
    THEN IF location[r] \in files
           THEN /\ files' = files \ {location[r]}
                /\ partial' = partial \ {location[r]}
                /\ removed' = Append(removed, location[r])
                /\ Return
                /\ log' = log \o <<Event("removed", r, location[r]), Event("installed", r, <<>>)>>
           ELSE /\ Raise("FileNotFoundError")
                /\ log' = Append(log, Event("raise", r, <<>>))
                /\ UNCHANGED <<files, partial, removed>>
    ELSE /\ Return
         /\ log' = Append(log, Event("installed", r, <<>>))
         /\ UNCHANGED <<files, partial, removed>>

\* EXEResource.install, MSIResource.install, DEBResource.install: the Popen
InstallLaunch ==
  /\ AtOwnAction
  /\ Kind(Top.r) \in {"EXE", "MSI", "DEB"}
  /\ LET r == Top.r
     IN IF downloaded[r]
          THEN /\ proc' = Running(InstallCommand(r, location[r]), location[r])
               /\ stack' = SetTop(stack, [Top EXCEPT !.pc = "poll"])
               /\ log' = Append(log, Event("action", r, location[r]))
               /\ UNCHANGED result
          ELSE \* logging.error, then installer is unbound (EXE) or self.name is missing
               /\ Raise(IF Kind(r) = "EXE" THEN "UnboundLocalError" ELSE "AttributeError")
               /\ log' = Append(log, Event("raise", r, <<>>))
               /\ UNCHANGED proc
  /\ UNCHANGED <<resvars, fsvars, applied, callvars, faults, histvars, gatevars, filevars, actorvars>>

\* the poll loop ends, then the removal
InstallFinish ==
  /\ stack # <<>>
  /\ Top.op = "install" /\ Top.pc = "poll"
  /\ PollEnded(proc)
  /\ RemoveAndReturn(Top.r, proc.code)
  /\ proc' = NoProc
  /\ UNCHANGED <<resvars, dirs, applied, callvars, faults, transfers, fetched, gatevars, filevars, actorvars>>

\* ZIPResource.install, TARBALLResource.install: extract(), then the removal
InstallArchive ==
  /\ AtOwnAction
  /\ Kind(Top.r) \in {"ZIP", "TARBALL"}
  /\ LET r == Top.r
     IN \/ /\ ~downloaded[r]          \* logging.error reads self.name
           /\ Raise("AttributeError")
           /\ log' = Append(log, Event("raise", r, <<>>))
           /\ UNCHANGED <<fsvars, removed, faults>>
        \/ /\ downloaded[r]
           /\ location[r] \notin files
           /\ Raise("FileNotFoundError")
           /\ log' = Append(log, Event("raise", r, <<>>))
           /\ UNCHANGED <<fsvars, removed, faults>>
        \/ /\ downloaded[r]          \* a truncated file is no archive
           /\ location[r] \in partial
           /\ Raise("BadArchive")
           /\ log' = Append(log, Event("raise", r, <<>>))
           /\ UNCHANGED <<fsvars, removed, faults>>
        \/ /\ downloaded[r]          \* what the server sent is no archive
           /\ location[r] \in files \ partial
           /\ faults < MaxFaults
           /\ faults' = faults + 1
           /\ Raise("BadArchive")
           /\ log' = Append(log, Event("raise", r, <<>>))
           /\ UNCHANGED <<fsvars, removed>>
        \/ /\ downloaded[r]
           /\ location[r] \in files \ partial
           /\ dirs' = dirs \cup {ExtractPath(Kind(r), location[r])}
           /\ IF RemovesAfter(remove[r], 0)
                THEN /\ files' = files \ {location[r]}
                     /\ removed' = Append(removed, location[r])
                     /\ log' = log \o <<Event("action", r, ExtractPath(Kind(r), location[r])),
                                        Event("removed", r, location[r]),
                                        Event("installed", r, <<>>)>>
                ELSE /\ log' = log \o <<Event("action", r, ExtractPath(Kind(r), location[r])),
                                        Event("installed", r, <<>>)>>
                     /\ UNCHANGED <<files, removed>>
           /\ Return
           /\ UNCHANGED <<partial, faults>>
  /\ UNCHANGED <<resvars, applied, proc, callvars, transfers, fetched, gatevars, filevars, actorvars>>

\* StaticResource.install: nothing after the dependencies
InstallStatic ==
  /\ AtOwnAction
  /\ Kind(Top.r) = "STATIC"
  /\ Return
  /\ log' = Append(log, Event("installed", Top.r, <<>>))
  /\ UNCHANGED <<resvars, fsvars, applied, proc, callvars, faults, histvars, gatevars, filevars, actorvars>>

\* APTResource.install, CUSTOMPPAResource.install: the first package's Popen
InstallPackages ==
  /\ AtOwnAction
  /\ Kind(Top.r) \in RepoKinds
  /\ LET packages == PackageList(Top.r)
     IN IF packages = <<>>
          THEN /\ Return
               /\ log' = Append(log, Event("installed", Top.r, <<>>))
               /\ UNCHANGED proc
          ELSE /\ proc' = Running(PackageCommand(packages[1]), <<>>)
               /\ stack' = SetTop(stack, [Top EXCEPT !.pc = "pkgpoll", !.i = 1])
               /\ log' = Append(log, Event("action", Top.r, packages[1]))
               /\ UNCHANGED result
  /\ UNCHANGED <<resvars, fsvars, applied, callvars, faults, histvars, gatevars, filevars, actorvars>>

\* a package's poll loop ends: the next package's Popen, or the end of install()
InstallNextPackage ==
  /\ stack # <<>>
  /\ Top.op = "install" /\ Top.pc = "pkgpoll"
  /\ PollEnded(proc)
  /\ LET packages == PackageList(Top.r)
     IN IF Top.i < Len(packages)
          THEN /\ proc' = Running(PackageCommand(packages[Top.i + 1]), <<>>)
               /\ stack' = SetTop(stack, [Top EXCEPT !.i = @ + 1])
               /\ log' = Append(log, Event("action", Top.r, packages[Top.i + 1]))
               /\ UNCHANGED result
          ELSE /\ Return
               /\ log' = Append(log, Event("installed", Top.r, <<>>))
               /\ proc' = NoProc
  /\ UNCHANGED <<resvars, fsvars, applied, callvars, faults, histvars, gatevars, filevars, actorvars>>

\* -------------------------------------------------------------------- Next
Next ==
  \/ \E args \in BuildArgs : CallBuild(args)
  \/ \E c \in DownloadCalls : CallDownload(c[1], c[2])
  \/ \E r \in RES : CallInstall(r)
  \/ BuildDownload
  \/ BuildInstall
  \/ BuildReturn
  \/ DownloadFile
  \/ DownloadRepoLaunch
  \/ DownloadRepoPoll
  \/ \E code \in ExitCodes : ProcExit(code)
  \/ InstallDependency
  \/ InstallLaunch
  \/ InstallFinish
  \/ InstallArchive
  \/ InstallStatic
  \/ InstallPackages
  \/ InstallNextPackage

Spec == Init /\ [][Next]_vars

\* ------------------------------------------------ the process from its start
\* No instance yet, Resource.agreement = False as the class body sets it.
ProcessInit ==
  /\ downloaded = [r \in RES |-> r = "msi"]
  /\ location = [r \in RES |-> Instances[r].location]
  /\ remove = [r \in RemovableRes |-> TRUE]
  /\ dependencies = [r \in RES |-> Instances[r].deps]
  /\ files = {}
  /\ partial = {}
  /\ dirs = {}
  /\ applied = {}
  /\ stack = <<>>
  /\ proc = NoProc
  /\ result = "none"
  /\ calls = 0
  /\ call = [op |-> "none", r |-> "", args |-> <<>>]
  /\ faults = 0
  /\ log = <<>>
  /\ transfers = <<>>
  /\ removed = <<>>
  /\ fetched = {}
  /\ agreement = FALSE
  /\ constructed = {}
  /\ overridden = {}
  /\ ctor = NoCtor
  /\ response = <<>>
  /\ exited = FALSE
  /\ resource_file = <<>>
  /\ loaded = NotLoaded
  /\ actor = [a \in Actors |-> Idle]
  /\ overlapped = {}

ProcessNext ==
  \/ \E r \in RES, overwrite_agreement \in BOOLEAN : Construct(r, overwrite_agreement)
  \/ \E resp \in Responses : Respond(resp)
  \/ \E args \in ProcessBuildArgs : CallBuild(args)
  \/ BuildDownload
  \/ BuildInstall
  \/ BuildReturn
  \/ DownloadFile
  \/ DownloadRepoLaunch
  \/ DownloadRepoPoll
  \/ \E code \in ExitCodes : ProcExit(code)
  \/ InstallDependency
  \/ InstallLaunch
  \/ InstallFinish
  \/ InstallArchive
  \/ InstallStatic
  \/ InstallPackages
  \/ InstallNextPackage

ProcessSpec == ProcessInit /\ [][ProcessNext]_vars

\* ------------------------------------------------- cli.py: build_from_file
\* An entry of the file is its label, which names the instance it stands
\* for, and the keys it has; the value of its type key is the type name of
\* that instance.  Every entry has overwrite_agreement: True and, where it
\* applies, remove: True, as the file of tests/cli_test.py has.
TypeName(r) ==
  CASE Kind(r) = "EXE" -> "exe"
    [] Kind(r) = "MSI" -> "msi"
    [] Kind(r) = "DEB" -> "deb"
    [] Kind(r) = "ZIP" -> "zip"
    [] Kind(r) = "TARBALL" -> "tarball"
    [] Kind(r) = "STATIC" -> "static"
    [] Kind(r) = "APT" -> "apt"
    [] Kind(r) = "PPA" -> "ppa"

\* the keys of a complete entry for the instance
AllKeys(r) ==
  CASE TypeName(r) = "static" -> {"type", "extension", "location"}
    [] TypeName(r) = "apt" -> {"type", "packages"}
    [] TypeName(r) = "ppa" -> {"type", "ppa", "packages"}
    [] OTHER -> {"type", "location"}

\* the entries the files are made of: complete, or with one key missing
Entries ==
  {[label |-> r, keys |-> AllKeys(r)] : r \in RES}
    \cup UNION {{[label |-> r, keys |-> AllKeys(r) \ {k}] : k \in AllKeys(r)} : r \in RES}

\* the files: up to MaxEntries entries, no label twice
ResourceFiles ==
  {f \in UNION {[1..n -> Entries] : n \in 1..MaxEntries} :
     \A i, j \in 1..Len(f) : f[i].label = f[j].label => i = j}

\* _validate_resources, the checks made on one entry
EntryValid(e) ==
  IF "type" \notin e.keys THEN FALSE
  ELSE IF TypeName(e.label) \notin {"ppa", "apt", "static"} THEN "location" \in e.keys
  ELSE IF TypeName(e.label) = "ppa" THEN "ppa" \in e.keys /\ "packages" \in e.keys
  ELSE IF TypeName(e.label) = "apt" THEN "packages" \in e.keys
  ELSE "extension" \in e.keys /\ "location" \in e.keys

\* a slip: only the first entry is checked before the instances are made
ValidatedFirstOnly(f) == EntryValid(f[1])

\* _validate_resources, the first loop: no entry makes it return
Validated(f) == \A i \in 1..Len(f) : EntryValid(f[i])

\* build_from_file: _read_resource and _validate_resources.  The second
\* loop of _validate_resources constructs one instance per entry, with the
\* values of the entry and False for every key it does not have.
ValidateResources ==
  /\ loaded.state = "not called"
  /\ resource_file # <<>>
  /\ stack = <<>>
  /\ IF Validated(resource_file)
       THEN LET labels == {resource_file[i].label : i \in 1..Len(resource_file)}
            IN /\ loaded' = [state |-> "list",
                             instances |-> [i \in 1..Len(resource_file) |-> resource_file[i].label]]
               /\ constructed' = constructed \cup labels
               /\ overridden' = overridden \cup labels
               /\ downloaded' = [r \in RES |-> IF r \in labels THEN FALSE ELSE downloaded[r]]
               /\ location' = [r \in RES |-> IF r \in labels THEN Instances[r].location
                                                              ELSE location[r]]
               /\ dependencies' = [r \in RES |-> IF r \in labels THEN <<>> ELSE dependencies[r]]
       ELSE /\ loaded' = [state |-> "None", instances |-> <<>>]
            /\ UNCHANGED <<constructed, overridden, downloaded, location, dependencies>>
  /\ UNCHANGED <<remove, fsvars, applied, stack, proc, result, callvars, faults, log, histvars,
                 agreement, ctor, response, exited, resource_file, actorvars>>

\* build_from_file: for resource in resources: build(resource)
FileBuild ==
  /\ loaded.state = "list"
  /\ result \in {"none", "returned"}
  /\ calls < Len(loaded.instances)
  /\ CallBuild(<<loaded.instances[calls + 1]>>)

\* the process from its start: build_from_file is called with one file
LoaderInit ==
  /\ downloaded = [r \in RES |-> FALSE]
  /\ location = [r \in RES |-> Instances[r].location]
  /\ remove = [r \in RemovableRes |-> TRUE]
  /\ dependencies = [r \in RES |-> <<>>]
  /\ files = {}
  /\ partial = {}
  /\ dirs = {}
  /\ applied = {}
  /\ stack = <<>>
  /\ proc = NoProc
  /\ result = "none"
  /\ calls = 0
  /\ call = [op |-> "none", r |-> "", args |-> <<>>]
  /\ faults = 0
  /\ log = <<>>
  /\ transfers = <<>>
  /\ removed = <<>>
  /\ fetched = {}
  /\ agreement = FALSE
  /\ constructed = {}
  /\ overridden = {}
  /\ ctor = NoCtor
  /\ response = <<>>
  /\ exited = FALSE
  /\ resource_file \in ResourceFiles
  /\ loaded = NotLoaded
  /\ actor = [a \in Actors |-> Idle]
  /\ overlapped = {}

LoaderNext ==
  \/ ValidateResources
  \/ FileBuild
  \/ BuildDownload
  \/ BuildInstall
  \/ BuildReturn
  \/ DownloadFile
  \/ DownloadRepoLaunch
  \/ DownloadRepoPoll
  \/ \E code \in ExitCodes : ProcExit(code)
  \/ InstallLaunch
  \/ InstallFinish
  \/ InstallArchive
  \/ InstallStatic
  \/ InstallPackages
  \/ InstallNextPackage

LoaderSpec == LoaderInit /\ [][LoaderNext]_vars

\* ------------------------------- Resource.download, run by two threads
\* The method is not one step here: a thread makes the existence test,
\* then asks for the URL, then opens the file and writes it, and the other
\* thread may run between any two of these.
ThreadCalls == {c \in DownloadCalls : c[1] \in FileRes}

\* the threads in the middle of download() for path p, other than a
Busy(a, p) == {b \in Actors \ {a} : actor[b].pc # "idle" /\ actor[b].file_path = p}

\* download() up to the branch it takes
ActorBegin(a, r, fp) ==
  /\ actor[a].pc = "idle"
  /\ stack = <<>>
  /\ r \in constructed
  /\ calls < MaxCalls
  /\ calls' = calls + 1
  /\ LET file_path == ResolvePath(r, fp)
     IN /\ overlapped' = IF Busy(a, file_path) # {} THEN overlapped \cup {file_path}
                                                   ELSE overlapped
        /\ IF PathExists(file_path, files, dirs)
             THEN /\ downloaded' = MarkDownloaded(downloaded, r)
                  /\ location' = [location EXCEPT ![r] = file_path]
                  /\ UNCHANGED actor
             ELSE IF IsURL(location[r])
             THEN /\ actor' = [actor EXCEPT ![a] = [r |-> r, file_path |-> file_path,
                                                    pc |-> "request"]]
                  /\ UNCHANGED <<downloaded, location>>
             ELSE /\ downloaded' = MarkDownloaded(downloaded, r)
                  /\ UNCHANGED <<location, actor>>
  /\ UNCHANGED <<remove, dependencies, fsvars, applied, stack, proc, result, call, faults, log,
                 histvars, gatevars, filevars>>

\* requests.get has answered: open(file_path, 'wb')
ActorOpen(a) ==
  /\ actor[a].pc = "request"
  /\ files' = files \cup {actor[a].file_path}
  /\ partial' = partial \cup {actor[a].file_path}
  /\ transfers' = Append(transfers, <<actor[a].r, actor[a].file_path>>)
  /\ actor' = [actor EXCEPT ![a].pc = "write"]
  /\ UNCHANGED <<resvars, dirs, applied, stack, proc, result, callvars, faults, log, removed,
                 fetched, gatevars, filevars, overlapped>>

\* the last chunk is written and the file closed
ActorFinish(a) ==
  /\ actor[a].pc = "write"
  /\ partial' = IF Busy(a, actor[a].file_path) = {} THEN partial \ {actor[a].file_path}
                                                    ELSE partial
  /\ downloaded' = MarkDownloaded(downloaded, actor[a].r)
  /\ location' = [location EXCEPT ![actor[a].r] =
                    LocationAfterTransfer(location[actor[a].r], actor[a].file_path)]
  /\ actor' = [actor EXCEPT ![a] = Idle]
  /\ UNCHANGED <<remove, dependencies, files, dirs, applied, stack, proc, result, callvars,
                 faults, log, histvars, gatevars, filevars, overlapped>>

\* requests.get or the stream raises: the thread leaves download()
ActorFail(a) ==
  /\ actor[a].pc \in {"request", "write"}
  /\ faults < MaxFaults
  /\ faults' = faults + 1
  /\ actor' = [actor EXCEPT ![a] = Idle]
  /\ UNCHANGED <<resvars, fsvars, applied, stack, proc, result, callvars, log, histvars,
                 gatevars, filevars, overlapped>>

ConcurrentNext ==
  \/ \E a \in Actors, c \in ThreadCalls : ActorBegin(a, c[1], c[2])
  \/ \E a \in Actors : ActorOpen(a)
  \/ \E a \in Actors : ActorFinish(a)
  \/ \E a \in Actors : ActorFail(a)

ConcurrentSpec == Init /\ [][ConcurrentNext]_vars

\* ------------------------------------------------------------- progress
\* The script calls build() only.  The interpreter goes on running the
\* call in progress, every transfer ends (completed or broken) and every
\* child process exits.
Step ==
  \/ BuildDownload
  \/ BuildInstall
  \/ BuildReturn
  \/ DownloadFile
  \/ DownloadRepoLaunch
  \/ DownloadRepoPoll
  \/ \E code \in ExitCodes : ProcExit(code)
  \/ InstallDependency
  \/ InstallLaunch
  \/ InstallFinish
  \/ InstallArchive
  \/ InstallStatic
  \/ InstallPackages
  \/ InstallNextPackage

LiveNext ==
  \/ \E args \in BuildArgs : CallBuild(args)
  \/ Step

LiveSpec == Init /\ [][LiveNext]_vars /\ WF_vars(Step)

\* ------------------------------------------------- a cycle of dependencies
\* The script has constructed the instances and then assigned
\* exe.dependencies = (zip,) and zip.dependencies = exe: each depends on
\* the other.
CycleInit ==
  /\ downloaded = [r \in RES |-> r = "msi"]
  /\ location = [r \in RES |-> Instances[r].location]
  /\ remove \in RemoveChoices
  /\ dependencies = [r \in RES |-> CASE r = "exe" -> <<"zip">>
                                     [] r = "zip" -> <<"exe">>
                                     [] OTHER -> Instances[r].deps]
  /\ files = {LOCAL_MSI}
  /\ partial = {}
  /\ dirs = {}
  /\ applied = {}
  /\ stack = <<>>
  /\ proc = NoProc
  /\ result = "none"
  /\ calls = 0
  /\ call = [op |-> "none", r |-> "", args |-> <<>>]
  /\ faults = 0
  /\ log = <<>>
  /\ transfers = <<>>
  /\ removed = <<>>
  /\ fetched = {}
  /\ agreement = TRUE
  /\ constructed = RES
  /\ overridden = {}
  /\ ctor = NoCtor
  /\ response = <<"y">>
  /\ exited = FALSE
  /\ resource_file = <<>>
  /\ loaded = NotLoaded
  /\ actor = [a \in Actors |-> Idle]
  /\ overlapped = {}

CycleSpec == CycleInit /\ [][Next]_vars

\* ================================================================== claims
LogIdx == 1..Len(log)
Is(n, e) == log[n].e = e
IsOf(n, e, r) == log[n].e = e /\ log[n].r = r

\* the declared dependencies of r, and all it reaches through them
DeclaredDeps(r) == {Instances[r].deps[i] : i \in 1..Len(Instances[r].deps)}
RECURSIVE Reach(_, _)
Reach(S, n) ==
  IF n = 0 THEN S
  ELSE Reach(S \cup UNION {DeclaredDeps(r) : r \in S}, n - 1)
TransitiveDeps(r) == Reach(DeclaredDeps(r), Cardinality(RES))
TransitiveDepsOf == [r \in RES |-> TransitiveDeps(r)]

\* the subprocess of an install action ended with a non-zero status at event n
InstallProcessFailed(n) ==
  /\ n > 1
  /\ Is(n, "exit") /\ Is(n - 1, "action")
  /\ log[n].x # <<0>>

\* --------------------------------------------------------------------- C1
\* C1: in build(), when install() of a resource begins, the resource's
\* downloaded flag is true, whatever the variant (APTResource and
\* CUSTOMPPAResource included).
C1_InstallBeginsDownloaded ==
  \A k \in 2..Len(stack) :
    ( /\ stack[k].op = "install" /\ stack[k].pc = "start" /\ stack[k].i = 1
      /\ stack[k - 1].op = "build" )
    => downloaded[stack[k].r]

\* --------------------------------------------------------------------- C2
\* C2: when the own install action of a resource runs (installer launched,
\* archive extracted, package installed), every dependency it declares,
\* directly or through its dependencies, has had download() return (or was
\* found downloaded by build) and then install() return, since this
\* install() of the owner began.
BeginOf(r, n) ==
  CHOOSE m \in 1..n : /\ IsOf(m, "install", r)
                      /\ \A k \in (m + 1)..n : ~IsOf(k, "install", r)

BuiltBetween(d, m, n) ==
  \E j \in (m + 1)..(n - 1) :
    /\ IsOf(j, "installed", d)
    /\ \E i \in (m + 1)..(j - 1) : IsOf(i, "downloaded", d) \/ IsOf(i, "skip", d)

C2_DependenciesBuiltFirst ==
  \A n \in LogIdx :
    Is(n, "action") =>
      /\ \E m \in 1..n : IsOf(m, "install", log[n].r)
      /\ TransitiveDepsOf[log[n].r] # {} =>
           LET b == BeginOf(log[n].r, n)
           IN \A d \in TransitiveDepsOf[log[n].r] : BuiltBetween(d, b, n)

\* msi's installer was launched; zip and, through zip, static were built for it
C2_Witness ==
  \E n \in LogIdx :
    /\ IsOf(n, "action", "msi")
    /\ \E j \in 1..n : IsOf(j, "installed", "static")
    /\ \E j \in 1..n : IsOf(j, "transfer", "zip")

\* --------------------------------------------------------------------- C3
\* C3: in build(), once download() or install() of a resource has failed
\* (an exception, or a subprocess that ended with a non-zero status), build
\* ends in an error and no download() or install() is invoked after the
\* failure: not install() of the resource whose download() failed, and
\* nothing of a later resource.
FailedAt(n) ==
  \/ Is(n, "raise")
  \/ Is(n, "exit") /\ log[n].x # <<0>>

C3_FailureStopsBuild ==
  \A n \in LogIdx :
    (call.op = "build" /\ FailedAt(n)) =>
      /\ result # "returned"
      /\ \A m \in (n + 1)..Len(log) : ~Is(m, "download") /\ ~Is(m, "install")

\* --------------------------------------------------------------------- C4
\* C4: in every state, the downloaded flag of a file resource is true if
\* and only if its location is the path of an existing file.
C4_DownloadedIffLocationExists ==
  \A r \in FileRes : downloaded[r] <=> location[r] \in files

\* --------------------------------------------------------------------- C5
\* C5: when download() of a resource of any variant has just returned
\* without error, its downloaded flag is true and its location is the path
\* of an existing file.
C5_DownloadedAfterDownload ==
  (log # <<>> /\ Is(Len(log), "downloaded")) =>
    LET r == log[Len(log)].r
    IN downloaded[r] /\ location[r] \in files

\* --------------------------------------------------------------------- C6
TransfersTo(p) == Cardinality({i \in 1..Len(transfers) : transfers[i][2] = p})
RemovalsOf(p) == Cardinality({i \in 1..Len(removed) : removed[i] = p})
TargetPaths == {transfers[i][2] : i \in 1..Len(transfers)}

\* download() finds a file at its target path: no transfer, no write, the
\* flag set, the location set to the path, a normal return
ExistingFileShortCircuit ==
  ( /\ stack # <<>>
    /\ Top.op = "download" /\ Top.r \in FileRes
    /\ PathExists(ResolvePath(Top.r, Top.fp), files, dirs) )
  => /\ transfers' = transfers
     /\ files' = files
     /\ downloaded'[Top.r]
     /\ location'[Top.r] = ResolvePath(Top.r, Top.fp)
     /\ stack' = Pop(stack)

\* C6 as stated: a download() that finds a file at its target path
\* transfers and writes nothing, sets downloaded and location and returns;
\* and no target path ever receives more than one transfer.
C6_AtMostOneTransferPerPath ==
  /\ [][ExistingFileShortCircuit]_vars
  /\ [](\A p \in TargetPaths : TransfersTo(p) <= 1)

\* C6 as amended: a download() that finds a file at its target path
\* transfers and writes nothing, sets downloaded and location and returns;
\* a transfer to a path starts only when nothing exists at that path, so a
\* path receives at most one more transfer than the number of times its
\* file was deleted by install() with remove = True.
C6_TransferOnlyWhenAbsent ==
  /\ [][ExistingFileShortCircuit]_vars
  /\ [][transfers' # transfers =>
          ~(transfers'[Len(transfers')][2] \in files \cup dirs)]_vars
  /\ [](\A p \in TargetPaths : TransfersTo(p) <= RemovalsOf(p) + 1)

\* a download() by one resource found the file another resource had
\* transferred to the same path, and returned without a transfer
C6_Witness ==
  /\ result = "returned"
  /\ Len(log) = 2
  /\ Is(1, "download") /\ Is(2, "downloaded")
  /\ \E i \in 1..Len(transfers) :
       transfers[i][2] = log[2].x /\ transfers[i][1] # log[2].r
  /\ location[log[2].r] = log[2].x
  /\ downloaded[log[2].r]

\* --------------------------------------------------------------------- C7
\* the step of a download() of a file resource that follows a download()
\* of the same resource to the same target path that returned normally: it
\* transfers nothing, writes nothing and returns normally
RepeatedDownloadIsNoOp ==
  ( /\ stack # <<>>
    /\ Top.op = "download" /\ Top.r \in FileRes
    /\ <<Top.r, ResolvePath(Top.r, Top.fp)>> \in fetched )
  => /\ transfers' = transfers
     /\ files' = files
     /\ stack' = Pop(stack)
     /\ downloaded'[Top.r]

\* C7: once download() of a file resource has returned normally for a
\* target path, a later download() of the same resource with the same target
\* path transfers nothing and returns normally, whether or not the file is
\* still there: the two calls make at most one transfer.
C7_DownloadTwiceOneTransfer == [][RepeatedDownloadIsNoOp]_vars

\* the second download() of a resource returned without a transfer although
\* the file its first download() had written was gone
C7_Witness ==
  /\ result = "returned"
  /\ Len(log) = 2
  /\ Is(1, "download") /\ Is(2, "downloaded")
  /\ log[2].x \notin files
  /\ \E i \in 1..Len(transfers) :
       transfers[i][1] = log[2].r /\ transfers[i][2] = log[2].x

\* --------------------------------------------------------------------- C8
\* C8: once install() of a ZIP or TARBALL resource has returned, the
\* directory named by the artifact path with the whole extension removed
\* ('.zip', '.tar.gz') exists.
C8_ExtractionDirectory ==
  \A n \in LogIdx :
    (Is(n, "installed") /\ Kind(log[n].r) \in {"ZIP", "TARBALL"}) =>
      LET r == log[n].r
      IN SliceEnd(location[r], Len(KindExtension(Kind(r)))) \in dirs

\* --------------------------------------------------------------------- C9
\* C9: install() of an EXE, MSI, DEB, ZIP or TARBALL resource deletes the
\* artifact exactly when the install action succeeded and remove is true:
\* a deletion follows only a successful action of a resource with remove
\* set, and an install() of a resource with remove set that returns after a
\* successful action has deleted the file.
C9_RemoveOnlyAfterSuccess ==
  /\ \A n \in LogIdx :
       Is(n, "removed") =>
         /\ remove[log[n].r]
         /\ ~InstallProcessFailed(n - 1)
  /\ \A n \in LogIdx :
       (Is(n, "installed") /\ log[n].r \in RemovableRes /\ remove[log[n].r]) =>
         (n > 1 /\ IsOf(n - 1, "removed", log[n].r))

\* -------------------------------------------------------------------- C10
\* C10: in build(), when the subprocess of an install action ends with a
\* non-zero status, install() does not return normally and build ends in
\* an error.
C10_NonZeroExitIsError ==
  \A n \in LogIdx :
    (call.op = "build" /\ InstallProcessFailed(n)) =>
      /\ result # "returned"
      /\ \A m \in (n + 1)..Len(log) : ~IsOf(m, "installed", log[n].r)

\* -------------------------------------------------------------------- C11
\* the install command of a package ended with a non-zero status at event n
PackageFailed(n) ==
  /\ InstallProcessFailed(n)
  /\ Kind(log[n].r) \in RepoKinds

\* C11: when the install command of a package of an APT or PPA resource
\* ends with a non-zero status, no install command of a later package of
\* that resource is run and the call ends in an error; the packages
\* installed before it stay installed.
C11_FailedPackageStopsInstall ==
  \A n \in LogIdx :
    PackageFailed(n) =>
      /\ result # "returned"
      /\ \A m \in (n + 1)..Len(log) : ~IsOf(m, "action", log[n].r)
      /\ \A m \in 1..(n - 2) :
           (IsOf(m, "action", log[n].r) /\ log[m + 1].x = <<0>>)
             => PackageCommand(log[m].x) \in applied

\* -------------------------------------------------------------------- C12
\* the packages an APT or PPA instance declares: a list, or one name
DeclaredPackages(r) ==
  IF Instances[r].pkgstr THEN <<Instances[r].packages[1]>> ELSE Instances[r].packages

\* the events of resource r from event m on
EventsSince(r, m) == SelectSeq(SubSeq(log, m, Len(log)), LAMBDA ev : ev.r = r)

\* the events of building r: the refresh command run to its end, then one
\* install command per declared package, each run to its end
ExpectedBuild(r) ==
  <<"download", "popen", "exit", "downloaded", "install">>
    \o [i \in 1..(2 * Len(DeclaredPackages(r))) |-> IF i % 2 = 1 THEN "action" ELSE "exit"]
    \o <<"installed">>

ExpectedBuildOf == [r \in RepoRes |-> ExpectedBuild(r)]

C13_ArgumentsPassed ==
  ( /\ stack # <<>>
    /\ Top.op = "install" /\ Top.pc = "poll"
    /\ proc.status = "running" )
  => SubSeq(proc.cmd, 3, Len(proc.cmd)) = Instances[Top.r].arguments

YesResponses == {<<"y">>, <<" ", "Y">>}
NoResponses == {<<"n">>, <<"N", " ">>}

\* C15: Resource.agreement starts false, never goes back to false once it
\* is true, and changes only in the step where a constructor waiting at its
\* prompt reads a 'y' response: no step of download(), install() or build()
\* and no other response changes it.
C15_GateMonotone ==
  /\ ~agreement
  /\ [][agreement => agreement']_vars
  /\ [][agreement' # agreement =>
          /\ ctor.pc = "prompt"
          /\ stack = <<>>
          /\ response' \in YesResponses]_vars

\* the gate was opened by a response typed ' Y', and a build has run since
C15_Witness ==
  /\ agreement
  /\ response = <<" ", "Y">>
  /\ result = "returned"
  /\ transfers # <<>>

\* -------------------------------------------------------------------- C16
\* the step of a constructor that reads a response at its prompt: 'y' opens
\* the gate and completes the construction, 'n' ends the process without
\* the instance, anything else shows the prompt again
PromptStep ==
  ctor.pc = "prompt" =>
    IF response' \in YesResponses
      THEN agreement' /\ ctor.r \in constructed' /\ ctor' = NoCtor
    ELSE IF response' \in NoResponses
      THEN exited' /\ constructed' = constructed
    ELSE ctor' = ctor /\ constructed' = constructed /\ ~exited' /\ ~agreement'

\* C16: an instance of any variant constructed without overwrite_agreement
\* exists only when the gate is true, and no download or install event of
\* such an instance happens while the gate is false; a constructor at its
\* prompt completes on 'y' (whatever the case and the surrounding blanks)
\* and prompts again after every response that is neither 'y' nor 'n'.
C16_ConstructedOnlyWhenAgreed ==
  /\ [](\A r \in constructed \ overridden : agreement)
  /\ [](\A n \in LogIdx : log[n].r \notin overridden => agreement)
  /\ [](\A k \in 1..Len(stack) :
          (stack[k].r # "" /\ stack[k].r \notin overridden) => agreement)
  /\ [][PromptStep]_vars

\* the PPA instance, constructed without overwrite_agreement, is being
\* installed; the APT instance before it was constructed with it, and the
\* prompt was answered 'yes' and then ' Y'
C16_Witness ==
  /\ "ppa" \in constructed \ overridden
  /\ "apt" \in overridden
  /\ response = <<" ", "Y">>
  /\ \E n \in LogIdx : IsOf(n, "action", "ppa")

\* -------------------------------------------------------------------- C17
\* C17: once the gate is true no constructor of any variant waits at a
\* prompt, whatever its overwrite_agreement: the constructions after the
\* one that was answered 'y' complete without a prompt.
C17_PromptOncePerProcess ==
  /\ [](agreement => ctor.pc = "none")
  /\ [][agreement => ctor'.pc = "none"]_vars

\* three instances were constructed without overwrite_agreement, a
\* Resource subclass, the APT and the PPA instance among them: the first
\* of them was prompted, the later ones were not
C17_Witness ==
  /\ agreement
  /\ {"zip", "apt", "ppa"} \subseteq constructed \ overridden
  /\ ctor.pc = "none"

\* -------------------------------------------------------------------- C18
\* C18 as stated: when a prompt was answered 'n' the process has ended,
\* the instance under construction does not exist, and no download() or
\* install() of any resource has run in that process.
C18_NoActionInProcess ==
  exited =>
    /\ stack = <<>> /\ ctor.pc = "none"
    /\ Cardinality(constructed) < Len(ScriptOrder)
    /\ log = <<>> /\ transfers = <<>> /\ applied = {}

\* C18 as amended: a prompt answered 'n' ends the process in that step; the
\* instance under construction is never created and nothing runs
\* afterwards.  What ran before it are downloads and installs of instances
\* constructed earlier with overwrite_agreement = True, and only those.
C18_ExitEndsProcess ==
  /\ [][(ctor.pc = "prompt" /\ response' \in NoResponses) =>
          (exited' /\ constructed' = constructed /\ ctor' = NoCtor)]_vars
  /\ [][~exited]_vars
  /\ [](exited =>
          /\ stack = <<>> /\ ctor.pc = "none" /\ proc.status # "running"
          /\ ~agreement
          /\ constructed \subseteq overridden
          /\ Cardinality(constructed) < Len(ScriptOrder)
          /\ \A n \in LogIdx : log[n].r \in overridden)

\* the prompt of the second constructor was answered 'N ' after the first
\* instance, constructed with overwrite_agreement, had been built
C18_Witness ==
  /\ exited
  /\ response = <<"N", " ">>
  /\ constructed = {"exe"}
  /\ result = "returned"
  /\ \E n \in LogIdx : IsOf(n, "installed", "exe")

\* -------------------------------------------------------------------- C19
InstallsOf(r) == Cardinality({n \in LogIdx : IsOf(n, "install", r)})

\* C19: within one top-level build() of distinct resources, install() of
\* a resource is invoked at most once, also when the resource is reached
\* both as an argument and as a dependency of another argument.
C19_InstallOncePerBuild ==
  ( /\ call.op = "build"
    /\ \A i, j \in 1..Len(call.args) : call.args[i] = call.args[j] => i = j )
  => \A r \in RES : InstallsOf(r) <= 1

\* -------------------------------------------------------------------- C20
\* C20: the downloaded flag of a resource never changes from true to false,
\* whatever download(), install() and build() calls are made; so it changes
\* from false to true at most once.
C20_DownloadedNeverReset ==
  [][\A r \in RES : downloaded[r] => downloaded'[r]]_vars

\* install() has removed the artifact its download() had transferred, and
\* the flag is still true
C20_Witness ==
  /\ call.op = "install" /\ call.r \in RemovableRes
  /\ result = "returned"
  /\ downloaded[call.r]
  /\ \E i \in 1..Len(removed) : removed[i] = location[call.r]
  /\ \E i \in 1..Len(transfers) : transfers[i][1] = call.r

\* -------------------------------------------------------------------- C21
\* <download folder>/<label><extension> of the StaticResource instance
WallpaperPath == <<"~", "/", "D", "/", "w", ".", "p", "n", "g">>

\* C21: build() of a StaticResource that still has its http(s) location,
\* once returned, has left a file <download folder>/<label><extension>,
\* and the resource's install() has no effect of its own: its step starts
\* no subprocess, leaves every file and directory as it was and leaves the
\* downloaded and location attributes unchanged.
C21_StaticBuildLeavesFile ==
  /\ []( ( /\ call.op = "build" /\ call.args = <<"static">>
           /\ result = "returned"
           /\ \E n \in LogIdx : IsOf(n, "download", "static") )
         => /\ WallpaperPath \in files
            /\ location["static"] = WallpaperPath
            /\ downloaded["static"] )
  /\ [][( /\ stack # <<>>
          /\ Top.op = "install" /\ Kind(Top.r) = "STATIC"
          /\ Top.i > Len(Instances[Top.r].deps) )
        => UNCHANGED <<files, partial, dirs, proc, applied, downloaded, location,
                       transfers, removed>>]_vars

\* build() of the StaticResource instance has transferred the file and
\* returned
C21_Witness ==
  /\ call.op = "build" /\ call.args = <<"static">>
  /\ result = "returned"
  /\ transfers = << <<"static", WallpaperPath>> >>
  /\ \E n \in LogIdx : IsOf(n, "installed", "static")

\* -------------------------------------------------------------------- C22
\* C22: build() handles its resources in argument order and nothing
\* overlaps.  A subprocess is started only when none is running; while one
\* runs, no frame moves and no transfer is made; the loop of the outermost
\* build() moves on only when every call it made has returned; and the
\* download() or install() it then calls is that of the argument it is at.
C22_NoOverlapInOrder ==
  /\ [][(proc' # proc /\ proc'.status = "running") => proc.status # "running"]_vars
  /\ [][proc.status = "running" =>
          (stack' = stack /\ transfers' = transfers /\ files' = files)]_vars
  /\ [][( /\ stack # <<>> /\ stack' # <<>>
          /\ stack[1].op = "build" /\ stack'[1] # stack[1] ) =>
          /\ Len(stack) = 1
          /\ stack'[1].i >= stack[1].i]_vars
  /\ [][(Len(stack) = 1 /\ Len(stack') = 2 /\ stack[1].op = "build") =>
          /\ stack'[2].r = stack[1].args[stack[1].i]
          /\ stack'[2].op = IF stack[1].pc = "start" THEN "download" ELSE "install"]_vars

\* build(exe, tar) has returned: both were transferred, exe's installer
\* ran and tar was extracted after it
C22_Witness ==
  /\ call.op = "build" /\ call.args = <<"exe", "tar">>
  /\ result = "returned"
  /\ \E n, m \in LogIdx :
       /\ n < m
       /\ IsOf(n, "installed", "exe")
       /\ IsOf(m, "transfer", "tar")

\* -------------------------------------------------------------------- C24
\* C24: build() with no resource invokes no download() or install(),
\* starts no subprocess, changes no attribute of any resource, no file and
\* not the agreement gate, and returns normally.
C24_EmptyBuildIsNoOp ==
  /\ []( (call.op = "build" /\ call.args = <<>>) =>
           /\ log = <<>>
           /\ proc.status # "running"
           /\ result \in {"running", "returned"}
           /\ stack = <<>> => result = "returned" )
  /\ [][(call'.op = "build" /\ call'.args = <<>>) =>
          UNCHANGED <<resvars, fsvars, applied, proc, histvars, gatevars, filevars, actorvars>>]_vars

\* build() has returned after another call had transferred a file
C24_Witness ==
  /\ call.op = "build" /\ call.args = <<>>
  /\ result = "returned"
  /\ calls = 2
  /\ transfers # <<>>

\* -------------------------------------------------------------------- C26
\* a resource and all it depends on
Closure(d) == {d} \cup TransitiveDeps(d)
ClosureOf == [d \in RES |-> Closure(d)]

\* C26: the dependencies of a resource are built depth-first in declared
\* order: since install() of the owner began, everything done for a
\* dependency (its download, its own dependencies, its install) comes
\* before anything done for a dependency declared after it; a dependencies
\* value that is one resource is built as that one resource.
C26_DependenciesInDeclaredOrder ==
  \A b \in LogIdx :
    ( /\ Is(b, "install")
      /\ Instances[log[b].r].deps # <<>>
      /\ \A k \in (b + 1)..Len(log) : ~IsOf(k, "install", log[b].r) )
    => LET r == log[b].r
       IN /\ \A i, j \in 1..Len(Instances[r].deps) :
               i < j =>
                 \A m \in (b + 1)..Len(log) :
                   log[m].r \in ClosureOf[Instances[r].deps[j]] =>
                     \A n \in m..Len(log) : log[n].r \notin ClosureOf[Instances[r].deps[i]]
          /\ \A n \in (b + 1)..Len(log) :
               IsOf(n, "action", r) =>
                 \A i \in 1..Len(Instances[r].deps) :
                   \E m \in (b + 1)..(n - 1) : IsOf(m, "installed", Instances[r].deps[i])

\* install() of msi has run its installer after exe was installed and,
\* after that, static and then zip were built
C26_Witness ==
  \E n1, n2, n3, n4 \in LogIdx :
    /\ n1 < n2 /\ n2 < n3 /\ n3 < n4
    /\ IsOf(n1, "installed", "exe")
    /\ IsOf(n2, "installed", "static")
    /\ IsOf(n3, "installed", "zip")
    /\ IsOf(n4, "action", "msi")

\* -------------------------------------------------------------------- C27
\* C27: download() of a resource whose location starts with neither
\* 'http://' nor 'https://', with nothing at the target path, makes no
\* transfer and creates no file; it sets downloaded to true, leaves
\* location as it is and returns.
LocalLocation(loc) ==
  /\ ~(Len(loc) >= 8 /\ SubSeq(loc, 1, 8) = <<"h", "t", "t", "p", "s", ":", "/", "/">>)
  /\ ~(Len(loc) >= 7 /\ SubSeq(loc, 1, 7) = <<"h", "t", "t", "p", ":", "/", "/">>)

C27_LocalLocationTakenAsDownloaded ==
  [][( /\ stack # <<>>
      /\ Top.op = "download" /\ Top.r \in FileRes
      /\ LocalLocation(location[Top.r])
      /\ ResolvePath(Top.r, Top.fp) \notin files \cup dirs )
    => /\ transfers' = transfers
       /\ files' = files /\ dirs' = dirs
       /\ downloaded'[Top.r]
       /\ location'[Top.r] = location[Top.r]
       /\ stack' = Pop(stack)]_vars

\* download() of msi, whose location is a local path, returned with the
\* flag set, the location kept and nothing at the default target path
C27_Witness ==
  /\ call.op = "download" /\ call.r = "msi"
  /\ result = "returned"
  /\ location["msi"] = LOCAL_MSI
  /\ downloaded["msi"]
  /\ ResolvePath("msi", <<>>) \notin files
  /\ transfers = <<>>

\* -------------------------------------------------------------------- C25
\* C25: a constructor called with overwrite_agreement = True never waits
\* at the prompt and completes in one step that leaves the gate as it was;
\* while the gate is false, a construction completes without a prompt only
\* if it has overwrite_agreement, so a later one without it still prompts.
C25_OverwriteBypassesGate ==
  /\ [](ctor.pc = "prompt" => ~ctor.overwrite_agreement)
  /\ [][overridden' # overridden =>
          /\ ctor = NoCtor /\ ctor' = NoCtor
          /\ agreement' = agreement
          /\ response' = response]_vars
  /\ [][(~agreement /\ ctor.pc = "none" /\ constructed' # constructed) =>
          overridden' # overridden]_vars
  /\ [][(~agreement /\ ctor.pc = "none" /\ ctor' # ctor) =>
          (ctor'.pc = "prompt" /\ constructed' = constructed)]_vars

\* with the gate still false, the instance constructed with
\* overwrite_agreement has been downloaded and installed, and the
\* constructor of the next instance, without it, waits at its prompt
C25_Witness ==
  /\ ~agreement
  /\ overridden = {"exe"}
  /\ ctor.pc = "prompt" /\ ctor.r = "static"
  /\ transfers # <<>>
  /\ \E n \in LogIdx : IsOf(n, "installed", "exe")

\* -------------------------------------------------------------------- C23
\* the instances on the cycle, and those that reach it through their
\* dependencies
OnCycle == {"exe", "zip"}
ReachesCycle == OnCycle \cup {"msi"}

\* C23: with exe and zip depending on each other, nothing detects the
\* cycle: install() of an instance on the cycle, or of one that depends on
\* it, never reaches its own install action and never returns, and a
\* build() or install() that gets to such an instance does not return
\* normally; the recursion goes on until the call stack is full.
C23_CycleNeverInstalls ==
  /\ \A n \in LogIdx :
       log[n].r \in ReachesCycle =>
         ~Is(n, "action") /\ ~Is(n, "installed") /\ ~Is(n, "removed")
  /\ (\E n \in LogIdx : Is(n, "install") /\ log[n].r \in ReachesCycle)
       => result # "returned"
  /\ \A k \in 1..Len(stack) :
       (stack[k].op = "install" /\ stack[k].r \in ReachesCycle)
         => /\ stack[k].pc = "start"
            /\ stack[k].i <= Len(dependencies[stack[k].r]) + 1
            /\ k = Len(stack) => stack[k].i <= Len(dependencies[stack[k].r])

\* build(exe) went round the cycle until the call stack was full
C23_Witness ==
  /\ call.op = "build" /\ call.args = <<"exe">>
  /\ result = "RecursionError"
  /\ InstallsOf("exe") >= 2
  /\ InstallsOf("zip") >= 2

\* -------------------------------------------------------------------- C30
\* C30: with the dependencies free of cycles, every transfer ending and
\* every child process exiting, each build() comes to its end: it returns
\* or it raises.
C30_BuildTerminates ==
  (stack # <<>>) ~> (stack = <<>> /\ result # "running")

\* build(msi) has returned after the installers of exe and msi had exited
\* and zip and static had been built
C30_Witness ==
  /\ call.op = "build" /\ call.args = <<"msi">>
  /\ stack = <<>>
  /\ result = "returned"
  /\ \E n \in LogIdx : IsOf(n, "exit", "msi")
  /\ \E n \in LogIdx : IsOf(n, "installed", "zip")

\* -------------------------------------------------------------------- C28
\* the fields an entry of a type must have
RequiredFields(type) ==
  CASE type \in {"exe", "msi", "zip", "deb", "tarball"} -> {"type", "location"}
    [] type = "ppa" -> {"type", "ppa", "packages"}
    [] type = "apt" -> {"type", "packages"}
    [] type = "static" -> {"type", "extension", "location"}

LacksField(e) == ~(RequiredFields(TypeName(e.label)) \subseteq e.keys)

\* C28: when an entry of the resource file lacks a field its type
\* requires, _validate_resources returns None with no instance
\* constructed, and build_from_file downloads and installs nothing for
\* that file.
C28_InvalidFileBuildsNothing ==
  ( /\ loaded.state # "not called"
    /\ \E i \in 1..Len(resource_file) : LacksField(resource_file[i]) )
  => /\ loaded.state = "None"
     /\ constructed = {}
     /\ stack = <<>> /\ calls = 0 /\ log = <<>>
     /\ transfers = <<>> /\ files = {} /\ applied = {}
     /\ proc.status = "none"

\* the file's first entry is complete, its second lacks a field:
\* _validate_resources has returned None
C28_Witness ==
  /\ loaded.state = "None"
  /\ Len(resource_file) = 2
  /\ ~LacksField(resource_file[1])
  /\ LacksField(resource_file[2])
  /\ resource_file[2].label = "static" /\ "extension" \notin resource_file[2].keys

\* -------------------------------------------------------------------- C29
\* C29: the existence test of download() and the write are separate
\* steps: two threads that find no file at the same path both transfer
\* and write it.  A path is transferred to at most once unless a call
\* for it began while another call for it was in progress.
C29_OneTransferWhenSerialized ==
  \A p \in DefaultPaths : TransfersTo(p) >= 2 => p \in overlapped

\* both threads passed the test for the same path before either opened
\* the file, and both have written it
C29_Witness ==
  \E p \in DefaultPaths :
    /\ TransfersTo(p) = 2
    /\ p \in overlapped
    /\ transfers[1][1] = transfers[2][1]
    /\ \A a \in Actors : actor[a].pc = "idle"
    /\ faults = 0
====
